---- MODULE Spec2Model ----
(***************************************************************************)
(* vuex-tstore: a typed proxy layer over a Vuex store (the "engine").      *)
(*                                                                         *)
(* A JavaScript string is modelled as a sequence of atoms, the separator   *)
(* "/" being an atom of its own: "module/payload" is                       *)
(* <<"module", "/", "payload">> and "" is << >>.  Other JavaScript values  *)
(* are records tagged with their type.                                     *)
(***************************************************************************)
EXTENDS Integers, Sequences, FiniteSets, TLC

VARIABLES
    state,              \* the engine's state tree (store.state)
    subscribers,        \* the engine's _subscribers list (store.subscribe)
    actionSubscribers,  \* the engine's _actionSubscribers list (store.subscribeAction)
    nextId,             \* identity of the next closure handed to the engine
    pending,            \* dispatches in flight: the promises not yet resolved
    handles,            \* the caller's registrations and the handles it was given
    tstore,             \* the wrapper tree: new Store(options)
    host,               \* the host framework: installedVue, the runtimes' hooks, the console
    captured,           \* the state object the wrappers hold, once the engine has replaced it
    last                \* what the most recent step did: calls, handler firings, result

vars == <<state, subscribers, actionSubscribers, nextId, pending, handles, tstore, host,
          captured, last>>

-----------------------------------------------------------------------------
(* Bounds of the model.                                                    *)

MaxSubs == 2        \* closures registered with listen/before/after in one run
MaxInflight == 1    \* dispatches in flight at the same time

MaxDepth == 3       \* modules nested below the root in a configuration
MaxStack == 3       \* frames of a call into itself before the stack is full
MaxInstalls == 5    \* calls of install in a run
MaxComponents == 3  \* components created in a run
MaxConcurrent == 2  \* dispatches in flight together, where runs have several

-----------------------------------------------------------------------------
(* JavaScript values.                                                      *)

Undefined == [tag |-> "undefined"]

\* The payload object number r: { title: r, value: r }, without a "type" property.
PayloadObject(r) == [tag |-> "object", ref |-> r, type |-> <<>>, title |-> r, value |-> r]

\* The object of an object-style commit or dispatch: { type: t, title: r, value: r }.
TypedObject(r, t) == [PayloadObject(r) EXCEPT !.type = t]

StringValue(s) == [tag |-> "string", str |-> s]

Refs == {1}
Payloads == {Undefined} \cup {PayloadObject(r) : r \in Refs}
Handlers == {"h1", "h2"}
Results == {[tag |-> "result", of |-> "r1"], [tag |-> "result", of |-> "r2"]}

-----------------------------------------------------------------------------
(* The configuration the tests wrap: a root with a namespaced module.      *)

HelloWorld == 0     \* stands for the title "Hello, world!"

Fn(name, body) == [name |-> <<name>>, body |-> body]
Entry(key, body) == [key |-> key, fn |-> Fn(key, body)]

testModuleStoreOptions ==
    [ namespaced |-> TRUE,
      state      |-> [value |-> 0],
      getters    |-> <<Entry("value", "getValue")>>,
      mutations  |-> <<Entry("payload", "setValue")>>,
      actions    |-> <<Entry("payload", "setValue")>>,
      modules    |-> << >> ]

testRootStoreOptions ==
    [ namespaced |-> FALSE,
      state      |-> [title |-> HelloWorld],
      getters    |-> <<Entry("title", "getTitle")>>,
      mutations  |-> <<Entry("payload", "setTitle"), Entry("noPayload", "resetTitle")>>,
      actions    |-> <<Entry("payload", "setTitle")>>,
      modules    |-> <<[key |-> "module", options |-> testModuleStoreOptions]>> ]

options == testRootStoreOptions

\* The module of the tests with its flag set either way and with modules of
\* its own: options.modules.module.namespaced = false
moduleOptions(namespaced, modules) ==
    [testModuleStoreOptions EXCEPT !.namespaced = namespaced, !.modules = modules]

\* The configurations whose modules nest: "a", in it "b", in it "c", ...
moduleNames == <<"a", "b", "c", "d", "e">>

RECURSIVE nested(_, _)
nested(level, depth) ==
    IF depth = 0 THEN {<< >>}
    ELSE {<< >>} \cup
         { <<[key |-> moduleNames[level], options |-> moduleOptions(b, ms)]>> :
             b \in BOOLEAN, ms \in nested(level + 1, depth - 1) }

Configurations == {[testRootStoreOptions EXCEPT !.modules = ms] : ms \in nested(1, MaxDepth)}

Range(s) == {s[i] : i \in DOMAIN s}

\* Object.entries(o).reduce(f, e0), for an f that maps each entry to a sequence
\* and appends it.
RECURSIVE FlatMap(_, _)
FlatMap(F(_), s) == IF s = << >> THEN << >> ELSE F(Head(s)) \o FlatMap(F, Tail(s))

-----------------------------------------------------------------------------
(* util.ts                                                                 *)

\* The optional parameter left out: undefined, which is no string. In a
\* template string it reads "undefined".
Absent == <<"(undefined)">>
template(s) == IF s = Absent THEN <<"undefined">> ELSE s

\* `namespace ? ... : ...`: undefined and "" are falsy
truthy(s) == s # Absent /\ s # << >>

\* A variant with the test `namespace !== ""`.
qualifyKeyNotEmpty(fn, namespace) ==
    LET key == fn.name
    IN  IF namespace # << >> THEN template(namespace) \o <<"/">> \o key ELSE key

qualifyKey(fn, namespace) ==
    LET key == fn.name
    IN  IF truthy(namespace) THEN template(namespace) \o <<"/">> \o key ELSE key

-----------------------------------------------------------------------------
(* The engine (Vuex), an external collaborator of this repository.         *)
(*                                                                         *)
(* The engine's state tree is a function from the paths of its leaves to   *)
(* their values: <<"module", "value">> is state.module.value.              *)

\* installModule: the state tree the engine builds from the configuration.
RECURSIVE installState(_, _)
installState(opts, path) ==
    LET own == {[path |-> path \o <<f>>, value |-> opts.state[f]] : f \in DOMAIN opts.state}
        sub(m) == installState(m.options, path \o <<m.key>>)
    IN  own \cup UNION {sub(m) : m \in Range(opts.modules)}

\* new VuexStore(opts): the engine made from a configuration, and the state
\* tree it starts with.
VuexStore(opts) == [tag |-> "VuexStore", options |-> opts]

stateOf(store) ==
    LET leaves == installState(store.options, << >>)
    IN  [p \in {l.path : l \in leaves} |-> (CHOOSE l \in leaves : l.path = p).value]

initialState == stateOf(VuexStore(options))

\* installModule: the handlers the engine registers, each under its namespaced
\* type; a module contributes "<key>/" to the namespace only when namespaced.
RECURSIVE installModule(_, _, _)
installModule(opts, path, namespace) ==
    LET reg(kind, e) == [kind |-> kind, type |-> namespace \o <<e.key>>,
                         path |-> path, body |-> e.fn.body]
        regMutation(e) == <<reg("mutation", e)>>
        regAction(e) == <<reg("action", e)>>
        regGetter(e) == <<reg("getter", e)>>
        child(m) == installModule(m.options, path \o <<m.key>>,
                        namespace \o (IF m.options.namespaced THEN <<m.key, "/">> ELSE << >>))
    IN  FlatMap(regMutation, opts.mutations) \o FlatMap(regAction, opts.actions)
          \o FlatMap(regGetter, opts.getters) \o FlatMap(child, opts.modules)

registry == installModule(options, << >>, << >>)

entriesOf(kind, type) == SelectSeq(registry, LAMBDA r : r.kind = kind /\ r.type = type)

registeredTypes(kind) == {r.type : r \in {x \in Range(registry) : x.kind = kind}}

\* What a handler of the configuration does to its module's local state.
applyBody(st, r, payload) ==
    CASE r.body = "setTitle"   -> [st EXCEPT ![r.path \o <<"title">>] = payload.title]
      [] r.body = "resetTitle" -> [st EXCEPT ![r.path \o <<"title">>] = HelloWorld]
      [] r.body = "setValue"   -> [st EXCEPT ![r.path \o <<"value">>] = payload.value]

RECURSIVE applyEntries(_, _, _)
applyEntries(st, entry, payload) ==
    IF entry = << >> THEN st
    ELSE applyEntries(applyBody(st, Head(entry), payload), Tail(entry), payload)

\* The handlers that read a property of their payload.
needsPayload(body) == body \in {"setTitle", "setValue"}

\* The calls the typed interface admits: a handler that reads its payload is
\* given an object.
wellTyped(kind, type, payload) ==
    \A r \in Range(entriesOf(kind, type)) : needsPayload(r.body) => payload.tag = "object"

\* store.getters[type]: the engine evaluates the configured getter on the local state.
storeGetters(st, type) ==
    LET entry == entriesOf("getter", type)
    IN  IF entry = << >> THEN Undefined
        ELSE LET r == entry[1]
             IN  CASE r.body = "getTitle" -> [tag |-> "number", num |-> st[r.path \o <<"title">>]]
                   [] r.body = "getValue" -> [tag |-> "number", num |-> st[r.path \o <<"value">>]]

\* unifyObjectStyle: commit({type, ...}) and dispatch({type, ...}) pass the
\* whole object as the payload.
unifyObjectStyle(type, payload, opts) ==
    IF type.tag = "object" /\ type.type # << >>
    THEN [type |-> type.type, payload |-> type, options |-> payload]
    ELSE [type |-> type.str, payload |-> payload, options |-> opts]

\* What a call that throws hands to its caller, and what a rejected promise
\* hands to the code awaiting it.
Thrown(error) == [tag |-> "throw", error |-> error]
Rejected(error) == [tag |-> "rejected", error |-> error]

\* A world: the engine's data, and what the running call has done so far
\* (the engine calls made, the caller's handlers invoked, the value returned).
World ==
    [ state |-> state, subscribers |-> subscribers,
      actionSubscribers |-> actionSubscribers, nextId |-> nextId, pending |-> pending,
      captured |-> captured,
      calls |-> << >>, fired |-> << >>, result |-> Undefined ]

Call(api, type, payload, opts) ==
    [api |-> api, type |-> type, payload |-> payload, options |-> opts]

NoOptions == [root |-> FALSE]

\* One invocation of a caller's handler: which closure ran it, its argument,
\* the state it could observe, and (for an action) the dispatch it belongs to.
Firing(sub, arg, st, d) ==
    [id |-> sub.id, hook |-> sub.hook, key |-> sub.key, handler |-> sub.handler,
     arg |-> arg, seen |-> st, dispatch |-> d]

Idle == [stage |-> "idle"]

freeSlots(w) == {d \in DOMAIN w.pending : w.pending[d] = Idle}

-----------------------------------------------------------------------------
(* mutations.ts and actions.ts: the closures given to the engine.          *)

\* ({ type, payload }) => { if (type === mutationKey) handler.call(null, payload) }
\* Variants of these closures, as they would be with a slip in the code: the
\* type test left out, or the whole event object handed to the handler.
listenCallbackWholeMutation(sub, mutation, st) ==
    IF mutation.type = sub.key
    THEN <<Firing(sub, mutation, st, 0)>>
    ELSE << >>

afterCallbackWholeAction(sub, action, st, d) ==
    IF action.type = sub.key
    THEN <<Firing(sub, action, st, d)>>
    ELSE << >>

listenCallbackUnfiltered(sub, mutation, st) ==
    <<Firing(sub, mutation.payload, st, 0)>>

listenCallback(sub, mutation, st) ==
    IF mutation.type = sub.key
    THEN <<Firing(sub, mutation.payload, st, 0)>>
    ELSE << >>

\* before: ({ type, payload }) => { if (type === actionKey) handler.call(null, payload) }
beforeCallback(sub, action, st, d) ==
    IF action.type = sub.key
    THEN <<Firing(sub, action.payload, st, d)>>
    ELSE << >>

\* after: ({ type, payload }) => { if (type === actionKey) handler.call(null, payload) }
afterCallback(sub, action, st, d) ==
    IF action.type = sub.key
    THEN <<Firing(sub, action.payload, st, d)>>
    ELSE << >>

-----------------------------------------------------------------------------
(* The engine's operations.                                                *)

\* store.commit(type, payload, options)
store_commit(w, _type, _payload, _options) ==
    LET u == unifyObjectStyle(_type, _payload, _options)
        mutation == [type |-> u.type, payload |-> u.payload]
        entry == entriesOf("mutation", mutation.type)
        st == applyEntries(w.state, entry, mutation.payload)
        notify(sub) == IF sub.hook = "subscribe"
                       THEN <<Firing(sub, mutation, st, 0)>>   \* fn(mutation, state)
                       ELSE listenCallback(sub, mutation, st)
        logged == [w EXCEPT !.calls = Append(@, Call("commit", _type, _payload, _options)),
                            !.result = Undefined]
    IN  IF entry = << >> THEN logged   \* "unknown mutation type": nothing happens
        ELSE IF ~wellTyped("mutation", mutation.type, mutation.payload)
        THEN \* the handler reads a property of undefined: it throws, and commit with it
             [logged EXCEPT !.result = Thrown("TypeError")]
        ELSE [logged EXCEPT !.state = st,
                            !.fired = @ \o FlatMap(notify, w.subscribers)]

\* store.dispatch(type, payload): the "before" subscribers, then the handler,
\* whose promise is chained to the "after" subscribers.
store_dispatch(w, _type, _payload, _options) ==
    LET u == unifyObjectStyle(_type, _payload, _options)
        action == [type |-> u.type, payload |-> u.payload]
        entry == entriesOf("action", action.type)
        d == CHOOSE x \in freeSlots(w) : \A y \in freeSlots(w) : x <= y
        befores == SelectSeq(w.actionSubscribers,
                             LAMBDA sub : sub.hook \in {"before", "subscribeAction"})
        notify(sub) == IF sub.hook = "subscribeAction"
                       THEN <<Firing(sub, action, w.state, d)>>   \* fn(action, state)
                       ELSE beforeCallback(sub, action, w.state, d)
        logged == [w EXCEPT !.calls = Append(@, Call("dispatch", _type, _payload, _options)),
                            !.result = Undefined]
    IN  IF entry = << >> THEN logged   \* "unknown action type": nothing happens
        ELSE IF ~wellTyped("action", action.type, action.payload)
        THEN \* the async handler reads a property of undefined: its promise is rejected
             [logged EXCEPT
                !.fired = @ \o FlatMap(notify, befores),
                !.pending[d] = [stage |-> "rejected", action |-> action,
                                value |-> Thrown("TypeError")],
                !.result = [tag |-> "promise", id |-> d]]
        ELSE [logged EXCEPT
                !.fired = @ \o FlatMap(notify, befores),
                !.state = applyEntries(w.state, entry, action.payload),
                !.pending[d] = [stage |-> "running", action |-> action, value |-> Undefined],
                !.result = [tag |-> "promise", id |-> d]]

\* genericSubscribe(fn, subs): the closure joins the list, and the handle
\* returned removes it.
store_subscribe(w, fn) ==
    LET sub == [fn EXCEPT !.id = w.nextId]
    IN  [w EXCEPT !.calls = Append(@, Call("subscribe", StringValue(fn.key), Undefined, NoOptions)),
                  !.subscribers = Append(@, sub),
                  !.nextId = @ + 1,
                  !.result = [tag |-> "unsubscribe", id |-> sub.id]]

store_subscribeAction(w, fn) ==
    LET sub == [fn EXCEPT !.id = w.nextId]
    IN  [w EXCEPT !.calls = Append(@, Call("subscribeAction", StringValue(fn.key), Undefined, NoOptions)),
                  !.actionSubscribers = Append(@, sub),
                  !.nextId = @ + 1,
                  !.result = [tag |-> "unsubscribe", id |-> sub.id]]

\* The handle: const i = subs.indexOf(fn); if (i > -1) subs.splice(i, 1)
unsubscribe(w, id) ==
    [w EXCEPT !.subscribers = SelectSeq(@, LAMBDA sub : sub.id # id),
              !.actionSubscribers = SelectSeq(@, LAMBDA sub : sub.id # id),
              !.result = Undefined]

\* The callback the engine runs when the handler's promise is fulfilled: the
\* "after" subscribers, then the promise returned by dispatch resolves with
\* the handler's value, which is what a caller awaiting it receives.
dispatch_then(w, d) ==
    LET p == w.pending[d]
        afters == SelectSeq(w.actionSubscribers, LAMBDA sub : sub.hook = "after")
        notify(sub) == afterCallback(sub, p.action, w.state, d)
    IN  [w EXCEPT !.fired = @ \o FlatMap(notify, afters),
                  !.pending[d] = Idle,
                  !.result = p.value]

\* The handler's promise was rejected: the engine's callback is passed over,
\* no "after" subscriber runs, and the promise returned by dispatch is
\* rejected with the same error.
dispatch_catch(w, d) ==
    LET p == w.pending[d]
    IN  [w EXCEPT !.pending[d] = Idle,
                  !.result = Rejected(p.value.error)]

\* store.watch(getter, cb, options): returns the function that stops watching.
\* The watcher lives in the host framework and is not followed here.
store_watch(w, getter, cb, opts) ==
    [w EXCEPT !.calls = Append(@, Call("watch", getter, cb, opts)),
              !.result = [tag |-> "unwatch", getter |-> getter, cb |-> cb]]

\* store.registerModule(path, module, options): the module's state joins the
\* state tree unless options.preserveState. The handlers the engine adds are
\* not followed here: the registry is that of the construction.
store_registerModule(w, path, module, opts) ==
    LET leaves == installState(module, path)
        st == [q \in DOMAIN w.state \cup {l.path : l \in leaves} |->
                 IF \E l \in leaves : l.path = q
                 THEN (CHOOSE l \in leaves : l.path = q).value
                 ELSE w.state[q]]
    IN  [w EXCEPT !.calls = Append(@, Call("registerModule", path, module, opts)),
                  !.state = IF opts.preserveState THEN @ ELSE st,
                  !.result = Undefined]

\* store.unregisterModule(path): the module's state leaves the state tree.
store_unregisterModule(w, path) ==
    LET keep == {q \in DOMAIN w.state : ~(Len(q) > Len(path) /\ SubSeq(q, 1, Len(path)) = path)}
    IN  [w EXCEPT !.calls = Append(@, Call("unregisterModule", path, Undefined, Undefined)),
                  !.state = [q \in keep |-> w.state[q]],
                  !.result = Undefined]

\* store.hotUpdate(newOptions): replaces handlers, keeps the state. The
\* handlers it swaps in are not followed here.
store_hotUpdate(w, newOptions) ==
    [w EXCEPT !.calls = Append(@, Call("hotUpdate", newOptions, Undefined, Undefined)),
              !.result = Undefined]

\* store.replaceState(state): the engine's root state becomes the object
\* given. The object that was the root until then stays as it is; the
\* first one replaced is the one the wrappers were constructed on.
store_replaceState(w, _state) ==
    [w EXCEPT !.calls = Append(@, Call("replaceState", _state, Undefined, Undefined)),
              !.state = _state,
              !.captured = IF @ = << >> THEN <<w.state>> ELSE @,
              !.result = Undefined]

\* store.getters[type]
store_getters(w, type) ==
    [w EXCEPT !.calls = Append(@, Call("getters", StringValue(type), Undefined, NoOptions)),
              !.result = storeGetters(w.state, type)]

-----------------------------------------------------------------------------
(* mutations.ts, actions.ts, getters.ts, state.ts: the proxies.            *)

\* Variants of the proxies, as they would be with a slip in the code: the
\* root option left out, the engine's return value dropped, the two hooks of
\* subscribeAction mixed up, the getter read once and kept.
mutationDeferredNoRoot(w, mutationKey, payload) ==
    store_commit(w, StringValue(mutationKey), payload, NoOptions)

actionDeferredNoReturn(w, actionKey, payload) ==
    [store_dispatch(w, StringValue(actionKey), payload, [root |-> TRUE])
        EXCEPT !.result = Undefined]

listenNoReturn(w, mutationKey, handler) ==
    [store_subscribe(w, [id |-> 0, hook |-> "listen", key |-> mutationKey, handler |-> handler])
        EXCEPT !.result = Undefined]

beforeNoReturn(w, actionKey, handler) ==
    [store_subscribeAction(w, [id |-> 0, hook |-> "before", key |-> actionKey, handler |-> handler])
        EXCEPT !.result = Undefined]

beforeAsAfter(w, actionKey, handler) ==
    store_subscribeAction(w, [id |-> 0, hook |-> "after", key |-> actionKey, handler |-> handler])

afterAsBefore(w, actionKey, handler) ==
    store_subscribeAction(w, [id |-> 0, hook |-> "before", key |-> actionKey, handler |-> handler])

\* More variants: the before closure put in front of the engine's list, the
\* after closure made and not subscribed, the payload not handed on.
beforePrepended(w, actionKey, handler) ==
    LET r == store_subscribeAction(w, [id |-> 0, hook |-> "before", key |-> actionKey,
                                       handler |-> handler])
        n == Len(r.actionSubscribers)
    IN  [r EXCEPT !.actionSubscribers = <<@[n]>> \o SubSeq(@, 1, n - 1)]

afterUnsubscribed(w, actionKey, handler) ==
    [w EXCEPT !.nextId = @ + 1, !.result = [tag |-> "unsubscribe", id |-> w.nextId]]

actionDeferredNoPayload(w, actionKey, payload) ==
    store_dispatch(w, StringValue(actionKey), Undefined, [root |-> TRUE])

getterGetCached(w, getter, namespace) ==
    [store_getters(w, qualifyKey(getter, namespace))
        EXCEPT !.result = storeGetters(initialState, qualifyKey(getter, namespace))]

\* (type, payload, options) => store.commit(type, payload, options)
commit(w, type, payload, opts) == store_commit(w, type, payload, opts)

\* A variant that commits again when the commit threw.
mutationDeferredRetried(w, mutationKey, payload) ==
    LET first == commit(w, StringValue(mutationKey), payload, [root |-> TRUE])
    IN  IF first.result.tag = "throw"
        THEN commit(first, StringValue(mutationKey), payload, [root |-> TRUE])
        ELSE first

\* deferred = payload => commit(mutationKey, payload, { root: true })
mutationDeferred(w, mutationKey, payload) ==
    commit(w, StringValue(mutationKey), payload, [root |-> TRUE])

\* deferred.listen = handler => store.subscribe(({ type, payload }) => ...)
\* A variant of listen that registers a handler on a key once: a second
\* listen with the same handler returns the handle of the first.
listenOnce(w, mutationKey, handler) ==
    LET same(sub) == sub.hook = "listen" /\ sub.key = mutationKey /\ sub.handler = handler
        standing == SelectSeq(w.subscribers, same)
    IN  IF standing # << >>
        THEN [w EXCEPT !.result = [tag |-> "unsubscribe", id |-> standing[1].id]]
        ELSE store_subscribe(w, [id |-> 0, hook |-> "listen", key |-> mutationKey,
                                 handler |-> handler])

listen(w, mutationKey, handler) ==
    store_subscribe(w, [id |-> 0, hook |-> "listen", key |-> mutationKey, handler |-> handler])

\* deferred = payload => store.dispatch(actionKey, payload, { root: true })
actionDeferred(w, actionKey, payload) ==
    store_dispatch(w, StringValue(actionKey), payload, [root |-> TRUE])

\* deferred.before = handler => store.subscribeAction({ before: ... })
before(w, actionKey, handler) ==
    store_subscribeAction(w, [id |-> 0, hook |-> "before", key |-> actionKey, handler |-> handler])

\* deferred.after = handler => store.subscribeAction({ after: ... })
after(w, actionKey, handler) ==
    store_subscribeAction(w, [id |-> 0, hook |-> "after", key |-> actionKey, handler |-> handler])

\* get: () => store.getters[qualifyKey(getter, namespace)]
getterGet(w, getter, namespace) == store_getters(w, qualifyKey(getter, namespace))

keysOf(entries) == {e.key : e \in Range(entries)}
fnOf(entries, key) == (CHOOSE e \in Range(entries) : e.key = key).fn

wrapMutations(namespace, mutations) ==
    [key \in keysOf(mutations) |-> [mutationKey |-> qualifyKey(fnOf(mutations, key), namespace)]]

wrapActions(namespace, actions) ==
    [key \in keysOf(actions) |-> [actionKey |-> qualifyKey(fnOf(actions, key), namespace)]]

wrapGetters(namespace, getters) ==
    [key \in keysOf(getters) |-> [getter |-> fnOf(getters, key), namespace |-> namespace]]

\* namespace.split("/")
RECURSIVE split(_)
split(s) ==
    IF \A i \in DOMAIN s : s[i] # "/" THEN <<s>>
    ELSE LET i == CHOOSE j \in DOMAIN s : s[j] = "/" /\ \A k \in 1..(j - 1) : s[k] # "/"
         IN  <<SubSeq(s, 1, i - 1)>> \o split(SubSeq(s, i + 1, Len(s)))

\* A variant of mState[path] that stays on mState where there is no such
\* property: (mState || {})[path] || mState
indexOrSelf(st, mState, path) ==
    LET p == mState.path \o path
    IN  CASE mState.tag = "ref" /\ Len(path) = 1 /\ p \in DOMAIN st ->
                [tag |-> "number", num |-> st[p], path |-> p]
          [] mState.tag = "ref" /\ Len(path) = 1
               /\ (\E q \in DOMAIN st : Len(q) > Len(p) /\ SubSeq(q, 1, Len(p)) = p) ->
                [tag |-> "ref", path |-> p]
          [] OTHER -> mState

\* mState[path], on references into the state tree st
index(st, mState, path) ==
    LET p == mState.path \o path
    IN  CASE mState.tag = "TypeError" -> mState
          [] mState.tag = "undefined" -> [tag |-> "TypeError"]
          [] mState.tag = "ref" /\ Len(path) = 1 /\ p \in DOMAIN st ->
                [tag |-> "number", num |-> st[p], path |-> p]
          [] mState.tag = "ref" /\ Len(path) = 1
               /\ (\E q \in DOMAIN st : Len(q) > Len(p) /\ SubSeq(q, 1, Len(p)) = p) ->
                [tag |-> "ref", path |-> p]
          [] OTHER -> Undefined

RECURSIVE reduceIndex(_, _, _)
reduceIndex(st, mState, namespacePath) ==
    IF namespacePath = << >> THEN mState
    ELSE reduceIndex(st, index(st, mState, Head(namespacePath)), Tail(namespacePath))

\* A variant that returns the root of the state tree for every namespace.
wrapStateRoot(namespace, st) == [tag |-> "ref", path |-> << >>]

\* wrapState: the object of the state tree at the namespace, by reference
wrapState(namespace, st) ==
    LET namespacePath == split(namespace)
        root == [tag |-> "ref", path |-> << >>]
    IN  IF namespacePath[1] # << >> THEN reduceIndex(st, root, namespacePath) ELSE root

\* new Store(options, store, name), and wrapModules(parent, store, modules)
RECURSIVE Store(_, _, _)
RECURSIVE wrapModules(_, _, _)

\* Variants of wrapModules: the separator put in front of every key, every
\* module taken as namespaced, an engine of its own for every module.
wrapModulesLeadingSlash(parent, store, modules) ==
    [key \in {m.key : m \in Range(modules)} |->
        LET opts == (CHOOSE m \in Range(modules) : m.key = key).options
            name == IF opts.namespaced THEN parent \o <<"/">> \o <<key>> ELSE << >>
        IN  Store(opts, store, name)]

wrapModulesAlwaysNamespaced(parent, store, modules) ==
    [key \in {m.key : m \in Range(modules)} |->
        LET opts == (CHOOSE m \in Range(modules) : m.key = key).options
            name == parent \o (IF parent = << >> THEN << >> ELSE <<"/">>) \o <<key>>
        IN  Store(opts, store, name)]

wrapModulesOwnEngine(parent, store, modules) ==
    [key \in {m.key : m \in Range(modules)} |->
        LET opts == (CHOOSE m \in Range(modules) : m.key = key).options
            name == IF opts.namespaced
                    THEN parent \o (IF parent = << >> THEN << >> ELSE <<"/">>) \o <<key>>
                    ELSE << >>
        IN  Store(opts, VuexStore(opts), name)]

wrapModules(parent, store, modules) ==
    [key \in {m.key : m \in Range(modules)} |->
        LET opts == (CHOOSE m \in Range(modules) : m.key = key).options
            name == IF opts.namespaced
                    THEN parent \o (IF parent = << >> THEN << >> ELSE <<"/">>) \o <<key>>
                    ELSE << >>
        IN  Store(opts, store, name)]

Store(opts, store, name) ==
    [ name      |-> name,
      store     |-> store,
      actions   |-> wrapActions(name, opts.actions),
      getters   |-> wrapGetters(name, opts.getters),
      modules   |-> wrapModules(name, store, opts.modules),
      state     |-> wrapState(name, stateOf(store)),
      mutations |-> wrapMutations(name, opts.mutations) ]

\* new Store(options): store = new VuexStore(options), name = ""
newStore(opts) == Store(opts, VuexStore(opts), << >>)

wrapper == newStore(options)

\* The root wrapper and every module wrapper under it.
RECURSIVE wrappersOf(_)
wrappersOf(wr) == {wr} \cup UNION {wrappersOf(wr.modules[k]) : k \in DOMAIN wr.modules}

Wrappers == wrappersOf(wrapper)

\* The constructor runs to its end when every wrapState of the tree does.
constructs(opts) == \A wr \in wrappersOf(newStore(opts)) : wr.state.tag # "TypeError"

\* An async function returns a new promise resolved with what its body
\* returns: it follows a promise returned, and is fulfilled with anything else.
asyncReturn(w) == [w EXCEPT !.result = [tag |-> "promise", resolvedWith |-> w.result]]

\* The methods of a wrapper that hand their arguments to the engine. self is
\* the wrapper, whose store is the one engine the world w describes.
\* A variant: commit under the wrapper's namespace.
Store_commitQualified(self, w, type, payload, opts) ==
    store_commit(w, IF self.name = << >> \/ type.tag # "string" THEN type
                    ELSE StringValue(self.name \o <<"/">> \o type.str), payload, opts)

Store_commit(self, w, type, payload, opts) == store_commit(w, type, payload, opts)

Store_dispatch(self, w, type, payload, opts) ==
    asyncReturn(store_dispatch(w, type, payload, opts))

Store_registerModule(self, w, path, module, opts) ==
    store_registerModule(w, path, module, opts)

Store_unregisterModule(self, w, path) == store_unregisterModule(w, path)

Store_hotUpdate(self, w, opts) == store_hotUpdate(w, opts)

Store_subscribe(self, w, fn) == store_subscribe(w, fn)

Store_subscribeAction(self, w, fn) == store_subscribeAction(w, fn)

Store_watch(self, w, getter, cb, opts) == store_watch(w, getter, cb, opts)

\* replaceState(state) { return this.replaceState(state) }: the method calls
\* itself until the stack is full, and the engine is never reached.
RECURSIVE Store_replaceState(_, _, _, _)
Store_replaceState(self, w, newState, frames) ==
    IF frames >= MaxStack THEN [w EXCEPT !.result = Thrown("RangeError")]
    ELSE Store_replaceState(self, w, newState, frames + 1)

\* wrapper.modules.a.modules.b ...: the module wrapper at a path of keys, the
\* paths there are, and the configuration of the module at a path.
RECURSIVE moduleAt(_, _)
moduleAt(wr, path) ==
    IF path = << >> THEN wr ELSE moduleAt(wr.modules[Head(path)], Tail(path))

RECURSIVE modulePaths(_)
modulePaths(wr) ==
    {<< >>} \cup UNION {{<<k>> \o p : p \in modulePaths(wr.modules[k])} : k \in DOMAIN wr.modules}

RECURSIVE optionsAt(_, _)
optionsAt(opts, path) ==
    IF path = << >> THEN opts
    ELSE optionsAt((CHOOSE m \in Range(opts.modules) : m.key = Head(path)).options, Tail(path))

-----------------------------------------------------------------------------
(* The state machine: callers use the proxies of the wrapper tree, other   *)
(* code uses the engine directly, and promises settle in between.          *)

NoKey == << >>

\* What a step leaves in "last": the operation, the proxy it went through
\* (namespace ns, handler name), the engine type and payload concerned, and
\* what the world w records of the call.
Did(op, ns, name, key, payload, reg, d, w) ==
    [ op |-> op, ns |-> ns, name |-> name, key |-> key, payload |-> payload,
      reg |-> reg, dispatch |-> d,
      calls |-> w.calls, fired |-> w.fired, result |-> w.result ]

-----------------------------------------------------------------------------
(* index.ts: the integration with the host framework.                      *)

\* The host runtimes: constructors of the framework, each with its version.
Vue(id, version) == [tag |-> "vue", id |-> id, version |-> version]
Runtimes ==
    { Vue("A", <<"2", ".", "6", ".", "1", "0">>),
      Vue("B", <<"1", ".", "0", ".", "2", "8">>),
      Vue("C", <<"0", ".", "1", "2", ".", "1", "6">>) }

\* Before anything is installed: let installedVue = null, no hook in any
\* runtime, nothing on the console.
Null == [tag |-> "null"]
NoHost == [installedVue |-> Null, hooks |-> [id \in {v.id : v \in Runtimes} |-> << >>],
           console |-> << >>, components |-> << >>]

\* s.split(sep)
RECURSIVE splitOn(_, _)
splitOn(s, sep) ==
    IF \A i \in DOMAIN s : s[i] # sep THEN <<s>>
    ELSE LET i == CHOOSE j \in DOMAIN s : s[j] = sep /\ \A k \in 1..(j - 1) : s[k] # sep
         IN  <<SubSeq(s, 1, i - 1)>> \o splitOn(SubSeq(s, i + 1, Len(s)), sep)

\* Number(s) of a string of decimal digits
digit(c) ==
    CASE c = "0" -> 0 [] c = "1" -> 1 [] c = "2" -> 2 [] c = "3" -> 3 [] c = "4" -> 4
      [] c = "5" -> 5 [] c = "6" -> 6 [] c = "7" -> 7 [] c = "8" -> 8 [] c = "9" -> 9

RECURSIVE Number(_)
Number(s) ==
    IF s = << >> THEN 0
    ELSE Number(SubSeq(s, 1, Len(s) - 1)) * 10 + digit(s[Len(s)])

\* applyMixin(vue): the init hook goes in as a global mixin from version 2
\* on, and into the prototype's _init before.
applyMixin(h, vue) ==
    LET version == Number(splitOn(vue.version, ".")[1])
    IN  IF version >= 2
        THEN [h EXCEPT !.hooks[vue.id] = Append(@, [via |-> "mixin", hook |-> "beforeCreate"])]
        ELSE [h EXCEPT !.hooks[vue.id] = Append(@, [via |-> "_init", hook |-> "init"])]

AlreadyInstalled == "[vuex-tstore] already installed. Vue.use(TStore) should be called only once."

\* A variant of install without the test for the runtime installed before.
installUnguarded(h, vue) == applyMixin([h EXCEPT !.installedVue = vue], vue)

\* install(vue)
install(h, vue) ==
    IF h.installedVue # Null /\ vue = h.installedVue
    THEN [h EXCEPT !.console = Append(@, AlreadyInstalled)]
    ELSE applyMixin([h EXCEPT !.installedVue = vue], vue)

\* What a component's options can declare under tstore: a wrapper, or a
\* function without parameters that returns one. Unset is the property
\* $tstore of a component that was never given one.
TStoreValue(n) == [tag |-> "tstore", id |-> n]
Factory(value) == [tag |-> "function", returns |-> value]
Unset == [tag |-> "unset"]
falsy(v) == v.tag \in {"undefined", "null", "unset"}

\* A variant of tstoreInit that binds a declared function as it is.
tstoreInitUncalled(this, components) ==
    LET opts == this.options
    IN  IF ~falsy(opts.tstore)
        THEN [this EXCEPT !.tstore = opts.tstore]
        ELSE IF opts.parent # 0 /\ ~falsy(components[opts.parent].tstore)
        THEN [this EXCEPT !.tstore = components[opts.parent].tstore]
        ELSE this

\* tstoreInit, run with the component as this; options.parent is the index
\* of the parent among the components, 0 for none.
tstoreInit(this, components) ==
    LET opts == this.options
    IN  IF ~falsy(opts.tstore)
        THEN [this EXCEPT !.tstore = IF opts.tstore.tag = "function"
                                     THEN opts.tstore.returns
                                     ELSE opts.tstore,
                          !.factoryCalls = IF opts.tstore.tag = "function" THEN @ + 1 ELSE @]
        ELSE IF opts.parent # 0 /\ ~falsy(components[opts.parent].tstore)
        THEN [this EXCEPT !.tstore = components[opts.parent].tstore]
        ELSE this

\* new vue(options): the hooks the runtime holds run on the new component,
\* each in turn.
RECURSIVE runHooks(_, _, _)
runHooks(hooks, this, components) ==
    IF hooks = << >> THEN this
    ELSE runHooks(Tail(hooks), tstoreInit(this, components), components)

createComponent(h, vue, opts) ==
    LET this == [runtime |-> vue.id, options |-> opts, tstore |-> Unset,
                 inits |-> Len(h.hooks[vue.id]), factoryCalls |-> 0]
    IN  [h EXCEPT !.components = Append(@, runHooks(h.hooks[vue.id], this, h.components))]

Engine(w) ==
    /\ state' = w.state
    /\ subscribers' = w.subscribers
    /\ actionSubscribers' = w.actionSubscribers
    /\ nextId' = w.nextId
    /\ pending' = w.pending
    /\ captured' = w.captured

Init ==
    /\ state = initialState
    /\ subscribers = << >>
    /\ actionSubscribers = << >>
    /\ nextId = 1
    /\ pending = [d \in 1..MaxInflight |-> Idle]
    /\ handles = << >>
    /\ tstore = wrapper
    /\ host = NoHost
    /\ captured = << >>
    /\ last = Did("new Store", << >>, "", NoKey, Undefined, 0, 0, World)

\* The handlers a caller registers: the first one is called h1, a later one
\* is the same function again or another one.
NewHandlers == IF handles = << >> THEN {"h1"} ELSE Handlers

\* The caller keeps the handle that listen, before or after returned.
Registered(hook, proxyKey, handler, w) ==
    handles' = Append(handles, [ id |-> nextId, hook |-> hook, key |-> proxyKey,
                                 handler |-> handler, handle |-> w.result,
                                 called |-> FALSE ])

\* wrapper.mutations.key(payload)
MutationInvoke(wr, key, payload) ==
    LET proxy == wr.mutations[key]
        w == mutationDeferred(World, proxy.mutationKey, payload)
    IN  /\ wellTyped("mutation", proxy.mutationKey, payload)
        /\ Engine(w)
        /\ UNCHANGED <<tstore, host>>
        /\ last' = Did("mutation", wr.name, key, proxy.mutationKey, payload, 0, 0, w)
        /\ UNCHANGED handles

\* wrapper.mutations.key.listen(handler)
Listen(wr, key, handler) ==
    LET proxy == wr.mutations[key]
        w == listen(World, proxy.mutationKey, handler)
    IN  /\ Len(handles) < MaxSubs
        /\ Engine(w)
        /\ UNCHANGED <<tstore, host>>
        /\ Registered("listen", proxy.mutationKey, handler, w)
        /\ last' = Did("listen", wr.name, key, proxy.mutationKey, Undefined,
                       Len(handles) + 1, 0, w)

\* wrapper.actions.key(payload)
ActionInvoke(wr, key, payload) ==
    LET proxy == wr.actions[key]
        w == actionDeferred(World, proxy.actionKey, payload)
    IN  /\ freeSlots(World) # {}
        /\ wellTyped("action", proxy.actionKey, payload)
        /\ Engine(w)
        /\ UNCHANGED <<tstore, host>>
        /\ last' = Did("action", wr.name, key, proxy.actionKey, payload, 0, 0, w)
        /\ UNCHANGED handles

\* wrapper.actions.key.before(handler)
Before(wr, key, handler) ==
    LET proxy == wr.actions[key]
        w == before(World, proxy.actionKey, handler)
    IN  /\ Len(handles) < MaxSubs
        /\ Engine(w)
        /\ UNCHANGED <<tstore, host>>
        /\ Registered("before", proxy.actionKey, handler, w)
        /\ last' = Did("before", wr.name, key, proxy.actionKey, Undefined,
                       Len(handles) + 1, 0, w)

\* wrapper.actions.key.after(handler)
After(wr, key, handler) ==
    LET proxy == wr.actions[key]
        w == after(World, proxy.actionKey, handler)
    IN  /\ Len(handles) < MaxSubs
        /\ Engine(w)
        /\ UNCHANGED <<tstore, host>>
        /\ Registered("after", proxy.actionKey, handler, w)
        /\ last' = Did("after", wr.name, key, proxy.actionKey, Undefined,
                       Len(handles) + 1, 0, w)

\* unsub(): the caller calls what it was given; calling what is not a
\* function throws a TypeError.
callHandle(w, handle) ==
    IF handle.tag = "unsubscribe" THEN unsubscribe(w, handle.id)
    ELSE [w EXCEPT !.result = [tag |-> "TypeError"]]

\* The caller calls the handle of its registration number reg (again).
Unsubscribe(reg) ==
    LET w == callHandle(World, handles[reg].handle)
    IN  /\ Engine(w)
        /\ UNCHANGED <<tstore, host>>
        /\ handles' = [handles EXCEPT ![reg].called = TRUE]
        /\ last' = Did(IF handles[reg].called THEN "unsubscribe again" ELSE "unsubscribe",
                       << >>, "", handles[reg].key, Undefined, reg, 0, w)

\* wrapper.getters.key
GetterRead(wr, key) ==
    LET proxy == wr.getters[key]
        w == getterGet(World, proxy.getter, proxy.namespace)
    IN  /\ Engine(w)
        /\ UNCHANGED <<tstore, host>>
        /\ last' = Did("getter", wr.name, key, NoKey, Undefined, 0, 0, w)
        /\ UNCHANGED handles

\* Other code commits on the engine: store.commit(type, payload)
EngineCommit(type, payload) ==
    LET w == store_commit(World, StringValue(type), payload, NoOptions)
    IN  /\ wellTyped("mutation", type, payload)
        /\ Engine(w)
        /\ UNCHANGED <<tstore, host>>
        /\ last' = Did("store.commit", << >>, "", type, payload, 0, 0, w)
        /\ UNCHANGED handles

\* ... or in the object style: store.commit({ type, ... })
EngineCommitObject(type, r) ==
    LET w == store_commit(World, TypedObject(r, type), Undefined, NoOptions)
    IN  /\ Engine(w)
        /\ UNCHANGED <<tstore, host>>
        /\ last' = Did("store.commit{}", << >>, "", type, TypedObject(r, type), 0, 0, w)
        /\ UNCHANGED handles

\* Other code dispatches on the engine: store.dispatch(type, payload)
EngineDispatch(type, payload) ==
    LET w == store_dispatch(World, StringValue(type), payload, NoOptions)
    IN  /\ freeSlots(World) # {}
        /\ wellTyped("action", type, payload)
        /\ Engine(w)
        /\ UNCHANGED <<tstore, host>>
        /\ last' = Did("store.dispatch", << >>, "", type, payload, 0, 0, w)
        /\ UNCHANGED handles

\* The promise of an action handler is fulfilled with some value.
Settle(d, value) ==
    LET w == [World EXCEPT !.pending[d].stage = "settled", !.pending[d].value = value]
    IN  /\ pending[d].stage = "running"
        /\ Engine(w)
        /\ UNCHANGED <<tstore, host>>
        /\ last' = Did("settle", << >>, "", pending[d].action.type,
                       pending[d].action.payload, 0, d, w)
        /\ UNCHANGED handles

\* The engine's callback on that promise runs.
Then(d) ==
    LET w == dispatch_then(World, d)
    IN  /\ pending[d].stage = "settled"
        /\ Engine(w)
        /\ UNCHANGED <<tstore, host>>
        /\ last' = Did("then", << >>, "", pending[d].action.type,
                       pending[d].action.payload, 0, d, w)
        /\ UNCHANGED handles

-----------------------------------------------------------------------------
(* Wrapper trees of other configurations.                                  *)

\* new Store(options) for one of the configurations
InitT ==
    /\ \E c \in Configurations : constructs(c) /\ tstore = newStore(c)
    /\ state = stateOf(tstore.store)
    /\ subscribers = << >>
    /\ actionSubscribers = << >>
    /\ nextId = 1
    /\ pending = [d \in 1..MaxInflight |-> Idle]
    /\ handles = << >>
    /\ host = NoHost
    /\ captured = << >>
    /\ last = Did("new Store", << >>, "", NoKey, Undefined, 0, 0, World)

\* qualifyKey(fn, namespace), and qualifyKey(fn)
QualifyKeyCall(fn, namespace) ==
    LET w == [World EXCEPT !.result = StringValue(qualifyKey(fn, namespace))]
    IN  /\ Engine(w)
        /\ UNCHANGED <<handles, tstore, host>>
        /\ last' = Did("qualifyKey", namespace, fn.name[1], NoKey, Undefined, 0, 0, w)

\* wrapper.modules.a.modules.b ...: the module wrapper at the path
ModuleRead(path) ==
    LET parent == moduleAt(tstore, SubSeq(path, 1, Len(path) - 1))
        w == [World EXCEPT !.result = parent.modules[path[Len(path)]]]
    IN  /\ path # << >>
        /\ Engine(w)
        /\ UNCHANGED <<handles, tstore, host>>
        /\ last' = Did("modules", parent.name, path[Len(path)], path, Undefined, 0, 0, w)

\* The functions and namespaces qualifyKey is called with.
handlerFns ==
    {e.fn : e \in Range(testRootStoreOptions.mutations) \cup Range(testModuleStoreOptions.getters)}
namespaces == {<< >>, Absent} \cup {wr.name : wr \in wrappersOf(tstore)}

NextT ==
    \/ \E fn \in handlerFns : \E namespace \in namespaces : QualifyKeyCall(fn, namespace)
    \/ \E path \in modulePaths(tstore) : ModuleRead(path)

SpecT == InitT /\ [][NextT]_vars

-----------------------------------------------------------------------------
(* The wrapper's own methods, its state view, and calls that fail.         *)

\* What a call of a method did: as Did, with the arguments it was given.
DidCall(op, wr, args, w) ==
    [args |-> args] @@ Did(op, wr.name, "", NoKey, Undefined, 0, 0, w)

\* wrapper.mutations.key(payload) outside the typed interface: a handler that
\* reads its payload is given none
MutationInvokeUntyped(wr, key, payload) ==
    LET proxy == wr.mutations[key]
        w == mutationDeferred(World, proxy.mutationKey, payload)
    IN  /\ ~wellTyped("mutation", proxy.mutationKey, payload)
        /\ Engine(w)
        /\ UNCHANGED <<tstore, host>>
        /\ last' = Did("mutation", wr.name, key, proxy.mutationKey, payload, 0, 0, w)
        /\ UNCHANGED handles

ActionInvokeUntyped(wr, key, payload) ==
    LET proxy == wr.actions[key]
        w == actionDeferred(World, proxy.actionKey, payload)
    IN  /\ freeSlots(World) # {}
        /\ ~wellTyped("action", proxy.actionKey, payload)
        /\ Engine(w)
        /\ UNCHANGED <<tstore, host>>
        /\ last' = Did("action", wr.name, key, proxy.actionKey, payload, 0, 0, w)
        /\ UNCHANGED handles

\* The promise returned by dispatch is rejected.
Catch(d) ==
    LET w == dispatch_catch(World, d)
    IN  /\ pending[d].stage = "rejected"
        /\ Engine(w)
        /\ UNCHANGED <<tstore, host>>
        /\ last' = Did("catch", << >>, "", pending[d].action.type,
                       pending[d].action.payload, 0, d, w)
        /\ UNCHANGED handles

\* wrapper.commit(type, payload, options)
StoreCommit(wr, type, payload, opts) ==
    LET w == Store_commit(wr, World, type, payload, opts)
    IN  /\ Engine(w)
        /\ UNCHANGED <<handles, tstore, host>>
        /\ last' = DidCall("commit", wr, <<type, payload, opts>>, w)

\* wrapper.dispatch(type, payload, options)
StoreDispatch(wr, type, payload, opts) ==
    LET w == Store_dispatch(wr, World, type, payload, opts)
    IN  /\ freeSlots(World) # {}
        /\ Engine(w)
        /\ UNCHANGED <<handles, tstore, host>>
        /\ last' = DidCall("dispatch", wr, <<type, payload, opts>>, w)

\* wrapper.subscribe(fn) and wrapper.subscribeAction(fn), fn the caller's own
Subscriber(hook, handler) == [id |-> 0, hook |-> hook, key |-> << >>, handler |-> handler]

StoreSubscribe(wr, fn) ==
    LET w == Store_subscribe(wr, World, fn)
    IN  /\ Len(subscribers) + Len(actionSubscribers) < MaxSubs
        /\ Engine(w)
        /\ UNCHANGED <<handles, tstore, host>>
        /\ last' = DidCall("subscribe", wr, <<fn>>, w)

StoreSubscribeAction(wr, fn) ==
    LET w == Store_subscribeAction(wr, World, fn)
    IN  /\ Len(subscribers) + Len(actionSubscribers) < MaxSubs
        /\ Engine(w)
        /\ UNCHANGED <<handles, tstore, host>>
        /\ last' = DidCall("subscribeAction", wr, <<fn>>, w)

\* wrapper.watch(getter, cb, options)
StoreWatch(wr, getter, cb, opts) ==
    LET w == Store_watch(wr, World, getter, cb, opts)
    IN  /\ Engine(w)
        /\ UNCHANGED <<handles, tstore, host>>
        /\ last' = DidCall("watch", wr, <<getter, cb, opts>>, w)

\* A variant of registerModule that builds a wrapper for the new module.
StoreRegisterModuleRewrapped(wr, path, module, opts) ==
    LET w == Store_registerModule(wr, World, path, module, opts)
        key == path[1]
    IN  /\ Engine(w)
        /\ UNCHANGED <<handles, host>>
        /\ tstore' = [tstore EXCEPT !.modules =
                        [k \in DOMAIN tstore.modules \cup {key} |->
                           IF k = key THEN Store(module, tstore.store, <<key>>)
                           ELSE tstore.modules[k]]]
        /\ last' = DidCall("registerModule", wr, <<path, module, opts>>, w)

\* wrapper.registerModule(path, module, options)
StoreRegisterModule(wr, path, module, opts) ==
    LET w == Store_registerModule(wr, World, path, module, opts)
    IN  /\ Engine(w)
        /\ UNCHANGED <<handles, tstore, host>>
        /\ last' = DidCall("registerModule", wr, <<path, module, opts>>, w)

\* wrapper.unregisterModule(path)
StoreUnregisterModule(wr, path) ==
    LET w == Store_unregisterModule(wr, World, path)
    IN  /\ Engine(w)
        /\ UNCHANGED <<handles, tstore, host>>
        /\ last' = DidCall("unregisterModule", wr, <<path>>, w)

\* wrapper.hotUpdate(options)
StoreHotUpdate(wr, opts) ==
    LET w == Store_hotUpdate(wr, World, opts)
    IN  /\ Engine(w)
        /\ UNCHANGED <<handles, tstore, host>>
        /\ last' = DidCall("hotUpdate", wr, <<opts>>, w)

\* wrapper.replaceState(newState)
ReplaceState(wr, newState) ==
    LET w == Store_replaceState(wr, World, newState, 0)
    IN  /\ Engine(w)
        /\ UNCHANGED <<handles, tstore, host>>
        /\ last' = DidCall("replaceState", wr, <<newState>>, w)

\* The tree that the object assigned to this.state in the constructor is
\* now: the engine's root state, until the engine has replaced it.
held == IF captured = << >> THEN state ELSE captured[1]

\* A variant in which wrapper.state is resolved on the engine at every read.
StateReadResolved(wr, field) ==
    LET w == [World EXCEPT !.result = index(state, wr.state, <<field>>)]
    IN  /\ Engine(w)
        /\ UNCHANGED <<handles, tstore, host>>
        /\ last' = Did("state", wr.name, field, NoKey, Undefined, 0, 0, w)

\* wrapper.state[field]
StateRead(wr, field) ==
    LET w == [World EXCEPT !.result = index(held, wr.state, <<field>>)]
    IN  /\ Engine(w)
        /\ UNCHANGED <<handles, tstore, host>>
        /\ last' = Did("state", wr.name, field, NoKey, Undefined, 0, 0, w)

\* wrapper.store.replaceState(newState)
EngineReplaceState(newState) ==
    LET w == store_replaceState(World, newState)
    IN  /\ Engine(w)
        /\ UNCHANGED <<handles, tstore, host>>
        /\ last' = DidCall("store.replaceState", wrapper, <<newState>>, w)

\* wrapper.store.state[...path]
EngineStateRead(path) ==
    LET w == [World EXCEPT !.result =
                reduceIndex(state, [tag |-> "ref", path |-> << >>], path)]
    IN  /\ Engine(w)
        /\ UNCHANGED <<handles, tstore, host>>
        /\ last' = Did("store.state", << >>, "", NoKey, path, 0, 0, w)

\* wrapState(namespace, store) on an engine of any configuration
WrapStateCall(namespace, store) ==
    LET w == [World EXCEPT !.result = wrapState(namespace, stateOf(store))]
    IN  /\ Engine(w)
        /\ UNCHANGED <<handles, tstore, host>>
        /\ last' = Did("wrapState", namespace, "", NoKey, store, 0, 0, w)

\* The arguments the methods are called with.
CommitOptions == {NoOptions, [root |-> TRUE]}
Callback(name) == [tag |-> "function", name |-> name]
WatchOptions == {Undefined, [deep |-> TRUE]}
RegisterOptions == {[preserveState |-> FALSE], [preserveState |-> TRUE]}
laterPath == <<"later">>
\* The engines wrapState is called on: those whose modules are all
\* namespaced, so that the tree has a sub-tree for every segment.
Engines ==
    {VuexStore(c) : c \in {x \in Configurations :
        \A path \in modulePaths(newStore(x)) : optionsAt(x, path).namespaced \/ path = << >>}}
EngineNamespaces == UNION {{wr.name : wr \in wrappersOf(newStore(e.options))} : e \in Engines}

\* The callers of these runs await a dispatch before they dispatch again.
Quiet == \A d \in DOMAIN pending : pending[d] = Idle

NextP ==
    \/ \E wr \in Wrappers : \E key \in DOMAIN wr.mutations : \E payload \in Payloads :
          MutationInvoke(wr, key, payload)
    \/ \E wr \in Wrappers : \E key \in DOMAIN wr.mutations : \E payload \in Payloads :
          MutationInvokeUntyped(wr, key, payload)
    \/ \E wr \in Wrappers : \E key \in DOMAIN wr.actions : \E payload \in Payloads :
          Quiet /\ ActionInvoke(wr, key, payload)
    \/ \E wr \in Wrappers : \E key \in DOMAIN wr.actions : \E payload \in Payloads :
          Quiet /\ ActionInvokeUntyped(wr, key, payload)
    \/ \E d \in DOMAIN pending : Settle(d, [tag |-> "result", of |-> "r1"])
    \/ \E d \in DOMAIN pending : Then(d)
    \/ \E d \in DOMAIN pending : Catch(d)
    \/ \E wr \in Wrappers : \E type \in registeredTypes("mutation") :
          \E payload \in Payloads : \E opts \in CommitOptions :
             StoreCommit(wr, StringValue(type), payload, opts)
    \/ \E wr \in Wrappers : \E type \in registeredTypes("action") :
          \E payload \in Payloads : \E opts \in CommitOptions :
             Quiet /\ StoreDispatch(wr, StringValue(type), payload, opts)
    \/ \E wr \in Wrappers : StoreSubscribe(wr, Subscriber("subscribe", "h1"))
    \/ \E wr \in Wrappers : StoreSubscribeAction(wr, Subscriber("subscribeAction", "h1"))
    \/ \E wr \in Wrappers : \E opts \in WatchOptions :
          StoreWatch(wr, Callback("getter"), Callback("cb"), opts)
    \/ \E wr \in Wrappers : \E opts \in RegisterOptions :
          StoreRegisterModule(wr, laterPath, testModuleStoreOptions, opts)
    \/ \E wr \in Wrappers : StoreUnregisterModule(wr, laterPath)
    \/ \E wr \in Wrappers : StoreHotUpdate(wr, testRootStoreOptions)
    \/ \E wr \in Wrappers : ReplaceState(wr, initialState)
    \/ \E wr \in Wrappers : \E field \in {"title", "value", "module"} : StateRead(wr, field)
    \/ \E store \in Engines : \E namespace \in EngineNamespaces :
          WrapStateCall(namespace, store)

SpecP == Init /\ [][NextP]_vars

\* Replacing the engine's state under wrappers that are in use.
ReplacedState(n) == [p \in DOMAIN initialState |-> n]
NewStates == {ReplacedState(2), ReplacedState(3)}

NextR ==
    \/ \E newState \in NewStates : EngineReplaceState(newState)
    \/ \E wr \in Wrappers : \E key \in DOMAIN wr.mutations : \E payload \in Payloads :
          MutationInvoke(wr, key, payload)
    \/ \E wr \in Wrappers : \E field \in {"title", "value", "module"} : StateRead(wr, field)
    \/ \E path \in DOMAIN initialState : EngineStateRead(path)

SpecR == Init /\ [][NextR]_vars

\* Resolving the state of a namespace on engines of every configuration.
\* new Store(opts): the wrapper tree, or the error of a wrapState in it
NewStoreCall(opts) ==
    LET w == [World EXCEPT !.result = IF constructs(opts) THEN newStore(opts)
                                       ELSE Thrown("TypeError")]
    IN  /\ Engine(w)
        /\ UNCHANGED <<handles, tstore, host>>
        /\ last' = Did("new Store", << >>, "", NoKey, opts, 0, 0, w)

\* The namespaces the wrappers of these configurations have.
StateNamespaces == UNION {{wr.name : wr \in wrappersOf(newStore(c))} : c \in Configurations}

NextW ==
    \/ \E c \in Configurations : \E namespace \in StateNamespaces :
          WrapStateCall(namespace, VuexStore(c))
    \/ \E c \in Configurations : NewStoreCall(c)

SpecW == Init /\ [][NextW]_vars

-----------------------------------------------------------------------------
(* Installing into host runtimes.                                          *)

\* The hooks in all runtimes, and the calls of install made so far.
RECURSIVE hookCount(_, _)
hookCount(h, ids) ==
    IF ids = {} THEN 0
    ELSE LET id == CHOOSE x \in ids : TRUE
         IN  Len(h.hooks[id]) + hookCount(h, ids \ {id})
installs == hookCount(host, DOMAIN host.hooks) + Len(host.console)

\* Vue.use(TStore), which calls install(Vue)
Install(vue) ==
    /\ installs < MaxInstalls
    /\ host' = install(host, vue)
    /\ last' = Did("install", << >>, vue.id, NoKey, vue, 0, 0, World)
    /\ UNCHANGED <<state, subscribers, actionSubscribers, nextId, pending, handles, tstore,
                   captured>>

\* new Vue({ tstore, parent }) in a runtime installed into; the components
\* of a run are those of one runtime.
CreateComponent(vue, parent, declared) ==
    /\ Len(host.components) < MaxComponents
    /\ host.hooks[vue.id] # << >>
    /\ \A i \in DOMAIN host.components : host.components[i].runtime = vue.id
    /\ host' = createComponent(host, vue, [tstore |-> declared, parent |-> parent])
    /\ last' = Did("new Vue", << >>, vue.id, NoKey, declared, 0, 0, World)
    /\ UNCHANGED <<state, subscribers, actionSubscribers, nextId, pending, handles, tstore,
                   captured>>

Declarations == {Undefined, TStoreValue(1), Factory(TStoreValue(2))}

\* The application installs first and creates its components then.
NextI ==
    \/ \E vue \in Runtimes : host.components = << >> /\ Install(vue)
    \/ \E vue \in Runtimes : \E parent \in {0} \cup DOMAIN host.components :
          \E declared \in Declarations : CreateComponent(vue, parent, declared)

SpecI == Init /\ [][NextI]_vars

\* The callers and other code that commit, listen and read getters.
NextM ==
    \/ \E wr \in Wrappers : \E key \in DOMAIN wr.mutations : \E payload \in Payloads :
          MutationInvoke(wr, key, payload)
    \/ \E wr \in Wrappers : \E key \in DOMAIN wr.mutations : \E h \in NewHandlers :
          Listen(wr, key, h)
    \/ \E reg \in DOMAIN handles : Unsubscribe(reg)
    \/ \E wr \in Wrappers : \E key \in DOMAIN wr.getters : GetterRead(wr, key)
    \/ \E type \in registeredTypes("mutation") : \E payload \in Payloads :
          EngineCommit(type, payload)
    \/ \E type \in registeredTypes("mutation") : \E r \in Refs :
          EngineCommitObject(type, r)

\* The callers and other code that dispatch and subscribe to actions.
NextA ==
    \/ \E wr \in Wrappers : \E key \in DOMAIN wr.actions : \E payload \in Payloads :
          ActionInvoke(wr, key, payload)
    \/ \E wr \in Wrappers : \E key \in DOMAIN wr.actions : \E h \in NewHandlers :
          Before(wr, key, h)
    \/ \E wr \in Wrappers : \E key \in DOMAIN wr.actions : \E h \in NewHandlers :
          After(wr, key, h)
    \/ \E reg \in DOMAIN handles : Unsubscribe(reg)
    \/ \E type \in registeredTypes("action") : \E payload \in Payloads :
          EngineDispatch(type, payload)
    \/ \E d \in DOMAIN pending : \E value \in Results : Settle(d, value)
    \/ \E d \in DOMAIN pending : Then(d)

\* Listeners of the three kinds, their handles, and the engine's events.
\* The handler name that the root store and its module both configure, as a
\* mutation and as an action: "payload" and "module/payload".
sharedKey == "payload"

NextL ==
    \/ \E wr \in Wrappers : Listen(wr, sharedKey, "h1")
    \/ \E wr \in Wrappers : Before(wr, sharedKey, "h1")
    \/ \E wr \in Wrappers : After(wr, sharedKey, "h1")
    \/ \E reg \in DOMAIN handles : Unsubscribe(reg)
    \/ \E wr \in Wrappers : \E payload \in Payloads :
          EngineCommit(wr.mutations[sharedKey].mutationKey, payload)
    \/ \E wr \in Wrappers : \E payload \in Payloads :
          EngineDispatch(wr.actions[sharedKey].actionKey, payload)
    \/ \E d \in DOMAIN pending : Settle(d, [tag |-> "result", of |-> "r1"])
    \/ \E d \in DOMAIN pending : Then(d)

Next == NextM \/ NextA

Spec == Init /\ [][Next]_vars

SpecM == Init /\ [][NextM]_vars

SpecA == Init /\ [][NextA]_vars

SpecL == Init /\ [][NextL]_vars

-----------------------------------------------------------------------------
(* Several dispatches in flight, several handlers on one action.           *)

\* As Init, with room in the engine for MaxConcurrent dispatches.
InitC ==
    /\ state = initialState
    /\ subscribers = << >>
    /\ actionSubscribers = << >>
    /\ nextId = 1
    /\ pending = [d \in 1..MaxConcurrent |-> Idle]
    /\ handles = << >>
    /\ tstore = wrapper
    /\ host = NoHost
    /\ captured = << >>
    /\ last = Did("new Store", << >>, "", NoKey, Undefined, 0, 0, World)

\* The payloads of dispatches in flight together: two objects.
ConcurrentPayloads == {PayloadObject(1), PayloadObject(2)}

\* The handlers and the dispatches are those of one key, the root's.
NextC ==
    \/ \E h \in NewHandlers : Before(wrapper, sharedKey, h)
    \/ \E h \in NewHandlers : After(wrapper, sharedKey, h)
    \/ \E reg \in DOMAIN handles : Unsubscribe(reg)
    \/ \E payload \in ConcurrentPayloads : ActionInvoke(wrapper, sharedKey, payload)
    \/ \E d \in DOMAIN pending : Settle(d, [tag |-> "result", of |-> "r1"])
    \/ \E d \in DOMAIN pending : Then(d)

SpecC == InitC /\ [][NextC]_vars

-----------------------------------------------------------------------------
(* Properties of the mutation proxies and the getter proxies.              *)

\* C1: every call of a mutation proxy, built with namespace ns for the
\* handler named n, makes exactly one call on the engine: commit with the
\* type "ns/n" ("n" when ns is empty), the payload the caller gave (undefined
\* when it gave none) and the options { root: true }. It makes no other
\* commit and no dispatch.
C1_MutationProxyCommitsOnce ==
    last.op = "mutation" =>
        LET qualified == IF last.ns = << >> THEN <<last.name>>
                         ELSE last.ns \o <<"/", last.name>>
        IN  last.calls = << Call("commit", StringValue(qualified), last.payload,
                                 [root |-> TRUE]) >>

\* The proxy of the module's handler has been called with a payload object.
C1_ModuleProxyInvoked ==
    /\ last.op = "mutation"
    /\ last.ns = <<"module">>
    /\ last.payload \in {PayloadObject(r) : r \in Refs}
    /\ state[<<"module", "value">>] = last.payload.value

\* C3: while a registration made with listen(h) on a mutation proxy stands
\* (its handle has not been called), every commit the engine carries out with
\* the proxy's qualified key as its type invokes h exactly once, with the
\* payload of that commit: a commit through the proxy, a commit(type, payload)
\* on the engine, and an object-style commit({ type, ... }) on the engine.
C3_ListenerGetsEveryMatchingCommit ==
    last.op \in {"mutation", "store.commit", "store.commit{}"} =>
        \A reg \in DOMAIN handles :
            LET r == handles[reg]
                mine == SelectSeq(last.fired, LAMBDA f : f.id = r.id)
            IN  (r.hook = "listen" /\ ~r.called /\ r.key = last.key) =>
                    /\ Len(mine) = 1
                    /\ mine[1].handler = r.handler
                    /\ mine[1].arg = last.payload

\* An object-style commit has reached a standing listener of its type.
C3_ObjectStyleCommitHeard ==
    /\ last.op = "store.commit{}"
    /\ \E reg \in DOMAIN handles :
          /\ handles[reg].hook = "listen"
          /\ ~handles[reg].called
          /\ handles[reg].key = last.key
    /\ \E i \in DOMAIN last.fired : last.fired[i].arg = last.payload

\* C10: reading a property of the getters proxy returns what the engine's
\* getters hold under the qualified key at the moment of the read: the proxy
\* reads the engine again at every access and keeps no value of its own, and
\* the only thing it does is that one read of the engine's getters.
C10_GetterReadIsCurrent ==
    last.op = "getter" =>
        LET qualified == IF last.ns = << >> THEN <<last.name>>
                         ELSE last.ns \o <<"/", last.name>>
        IN  /\ last.result = storeGetters(state, qualified)
            /\ last.calls = << Call("getters", StringValue(qualified), Undefined,
                                    NoOptions) >>

\* A getter has been read after a commit changed the value it computes.
C10_ReadAfterCommit ==
    /\ last.op = "getter"
    /\ last.name = "title"
    /\ last.result # storeGetters(initialState, <<"title">>)

-----------------------------------------------------------------------------
(* Properties of the action proxies.                                       *)

\* C2: every call of an action proxy makes exactly one call on the engine:
\* dispatch with the qualified key, the caller's payload and { root: true }.
\* What the caller gets back is the promise of that engine dispatch, and that
\* promise is resolved with the value the action handler's result settled to.
C2_ActionProxyDispatchesOnce ==
    /\ [](last.op = "action" =>
            LET qualified == IF last.ns = << >> THEN <<last.name>>
                             ELSE last.ns \o <<"/", last.name>>
            IN  /\ last.calls = << Call("dispatch", StringValue(qualified),
                                        last.payload, [root |-> TRUE]) >>
                /\ last.result \in {[tag |-> "promise", id |-> d] : d \in DOMAIN pending}
                /\ pending[last.result.id] =
                       [ stage |-> "running",
                         action |-> [type |-> qualified, payload |-> last.payload],
                         value |-> Undefined ])
    /\ [][last'.op = "then" =>
            /\ pending[last'.dispatch].stage = "settled"
            /\ last'.result = pending[last'.dispatch].value]_vars

\* The proxy of the module's action has been called and returned a promise.
C2_ModuleActionInvoked ==
    /\ last.op = "action"
    /\ last.ns = <<"module">>
    /\ last.result.tag = "promise"
    /\ pending[last.result.id].stage = "running"

\* C7: in every dispatch through an action proxy, each standing registration
\* made with before(h) on that proxy fires exactly once within the call of
\* the proxy, on the state as it was before the action body ran, and no
\* handler registered with after fires in that call: those fire in a later
\* step, so every before handler comes strictly before every after handler.
C7_BeforeFiresFirst ==
    [][last'.op = "action" =>
         /\ \A reg \in DOMAIN handles :
               LET r == handles[reg]
                   mine == SelectSeq(last'.fired, LAMBDA f : f.id = r.id)
               IN  (r.hook = "before" /\ ~r.called /\ r.key = last'.key) =>
                       /\ Len(mine) = 1
                       /\ mine[1].handler = r.handler
                       /\ mine[1].seen = state
         /\ \A reg \in DOMAIN handles : \A i \in DOMAIN last'.fired :
               handles[reg].hook = "after" => last'.fired[i].id # handles[reg].id
    ]_vars

\* A before handler has seen the state that the action body then changed.
C7_BeforeSawOldState ==
    /\ last.op = "action"
    /\ \E i \in DOMAIN last.fired :
          /\ last.fired[i].hook = "before"
          /\ last.fired[i].seen # state

\* C8: a handler registered with after on an action proxy never fires within
\* the call that dispatches the action; it fires only in the engine's
\* callback on the action's promise, once that promise has settled.
C8_AfterOnlyOnceSettled ==
    [][\A i \in DOMAIN last'.fired : \A reg \in DOMAIN handles :
          (handles[reg].hook = "after" /\ handles[reg].id = last'.fired[i].id) =>
              /\ last'.op = "then"
              /\ pending[last'.fired[i].dispatch].stage = "settled"
              /\ pending[last'.fired[i].dispatch].action.type = handles[reg].key
    ]_vars

\* An after handler has fired in the callback of a settled dispatch.
C8_AfterFiredOnThen ==
    /\ last.op = "then"
    /\ last.result \in Results
    /\ \E i \in DOMAIN last.fired : last.fired[i].hook = "after"

\* C9: every before and every after handler invoked for a dispatch receives
\* the payload given to that dispatch, the very same object, and an after
\* handler never receives the value the action returned.
C9_HandlersGetThePayload ==
    \A i \in DOMAIN last.fired :
        last.fired[i].hook \in {"before", "after"} =>
            /\ last.fired[i].arg = last.payload
            /\ last.fired[i].arg \notin Results

\* An after handler has received the payload object of a dispatch whose
\* action returned something else.
C9_AfterGotPayloadObject ==
    /\ last.op = "then"
    /\ last.result \in Results
    /\ \E i \in DOMAIN last.fired :
          /\ last.fired[i].hook = "after"
          /\ last.fired[i].arg \in {PayloadObject(r) : r \in Refs}
          /\ last.fired[i].arg = last.payload

-----------------------------------------------------------------------------
(* Properties of the registrations made with listen, before and after.     *)

\* C4: a handler registered with listen, before or after on the proxy of
\* qualified key k is invoked only for events whose type is exactly k: a
\* handler on the root's "payload" is not invoked for "module/payload", nor
\* the other way round.
C4_OnlyMatchingTypeFires ==
    \A i \in DOMAIN last.fired : \A reg \in DOMAIN handles :
        handles[reg].id = last.fired[i].id => handles[reg].key = last.key

\* A commit has reached the listener of its type while a listener of the
\* other "payload" mutation stood by.
C4_OtherListenerSilent ==
    /\ last.op = "store.commit"
    /\ Len(last.fired) = 1
    /\ \E reg \in DOMAIN handles :
          /\ handles[reg].hook = "listen"
          /\ ~handles[reg].called
          /\ handles[reg].key # last.key

\* C5: once the handle returned by listen, before or after has been called,
\* no commit and no dispatch invokes the handler of that registration any
\* more.
C5_NoDeliveryAfterUnsubscribe ==
    \A i \in DOMAIN last.fired : \A reg \in DOMAIN handles :
        handles[reg].id = last.fired[i].id => ~handles[reg].called

\* A dispatch of the key of a cancelled before registration has been made,
\* and only the registration still standing has fired.
C5_CancelledStaysSilent ==
    /\ last.op = "store.dispatch"
    /\ Len(last.fired) = 1
    /\ \E reg \in DOMAIN handles :
          /\ handles[reg].hook = "before"
          /\ handles[reg].called
          /\ handles[reg].key = last.key

\* C6: calling a handle returned by listen, before or after again, after it
\* has been called, returns normally and removes nothing: the engine's lists
\* of subscribers are what they were.
C6_SecondUnsubscribeIsNoOp ==
    [][(last'.op \in {"unsubscribe", "unsubscribe again"} /\ handles[last'.reg].called) =>
          /\ last'.result = Undefined
          /\ subscribers' = subscribers
          /\ actionSubscribers' = actionSubscribers
    ]_vars

\* A handle has been called again while another registration stands.
C6_CalledAgain ==
    /\ last.op = "unsubscribe again"
    /\ last.result = Undefined
    /\ \E reg \in DOMAIN handles :
          /\ ~handles[reg].called
          /\ \E k \in DOMAIN actionSubscribers : actionSubscribers[k].id = handles[reg].id

-----------------------------------------------------------------------------
(* Namespaces and the tree of wrappers, under SpecT.                       *)

\* C11: qualifyKey(fn, namespace) returns namespace + "/" + name for a
\* namespace that is not empty, and the name alone for the empty namespace
\* and for the namespace left out; the call changes nothing in the engine
\* and makes no call to it.
C11_QualifyKeyPrefixesTheName ==
    [][last'.op = "qualifyKey" =>
          /\ last'.result =
                StringValue(IF last'.ns \in {<< >>, Absent}
                            THEN <<last'.name>>
                            ELSE last'.ns \o <<"/", last'.name>>)
          /\ last'.calls = << >>
          /\ last'.fired = << >>
          /\ UNCHANGED <<state, subscribers, actionSubscribers, nextId, pending, tstore>>
    ]_vars

\* qualifyKey has been called without a namespace and has returned the name.
C11_CalledWithoutNamespace ==
    /\ last.op = "qualifyKey"
    /\ last.ns = Absent
    /\ last.result = StringValue(<<last.name>>)

\* C12: the wrapper of a module declared namespaced, at any depth, has the
\* namespace of its parent wrapper, a "/" when that is not empty, and the
\* module's key; its proxies commit, dispatch and read under that prefix.
C12_NamespacedModuleExtendsParent ==
    (last.op = "modules" /\ optionsAt(tstore.store.options, last.key).namespaced) =>
        LET expected == IF last.ns = << >> THEN <<last.name>>
                        ELSE last.ns \o <<"/", last.name>>
            wr == last.result
        IN  /\ wr.name = expected
            /\ Head(wr.name) # "/"
            /\ \A k \in DOMAIN wr.mutations : wr.mutations[k].mutationKey = expected \o <<"/", k>>
            /\ \A k \in DOMAIN wr.actions : wr.actions[k].actionKey = expected \o <<"/", k>>
            /\ \A k \in DOMAIN wr.getters :
                  qualifyKey(wr.getters[k].getter, wr.getters[k].namespace) = expected \o <<"/", k>>

\* The wrapper of "b", namespaced in the namespaced "a", has been read.
C12_NestedNamespacedRead ==
    /\ last.op = "modules"
    /\ last.key = <<"a", "b">>
    /\ last.ns = <<"a">>
    /\ last.result.name = <<"a", "/", "b">>
    /\ last.result.mutations["payload"].mutationKey = <<"a", "/", "b", "/", "payload">>

\* C13: the wrapper of a module not declared namespaced, at any depth, has
\* the namespace of its parent wrapper unchanged, and its proxies use keys
\* under that prefix.
C13_PlainModuleInheritsParent ==
    (last.op = "modules" /\ ~optionsAt(tstore.store.options, last.key).namespaced) =>
        LET wr == last.result
        IN  /\ wr.name = last.ns
            /\ \A k \in DOMAIN wr.mutations :
                  wr.mutations[k].mutationKey = qualifyKey(Fn(k, ""), last.ns)

\* C14: for a module not namespaced directly under the root, the getter
\* proxies read the engine's getter of the plain name and the mutation and
\* action proxies commit and dispatch the plain name, under which the engine
\* has registered the module's handlers.
C14_PlainModuleUnderRootUsesPlainNames ==
    (last.op = "modules" /\ Len(last.key) = 1
        /\ ~optionsAt(tstore.store.options, last.key).namespaced) =>
        LET wr == last.result
            entries == Range(installModule(tstore.store.options, << >>, << >>))
            has(kind, k) == \E e \in entries : e.kind = kind /\ e.type = <<k>> /\ e.path = last.key
        IN  /\ \A k \in DOMAIN wr.getters :
                  /\ qualifyKey(wr.getters[k].getter, wr.getters[k].namespace) = <<k>>
                  /\ has("getter", k)
            /\ \A k \in DOMAIN wr.mutations :
                  wr.mutations[k].mutationKey = <<k>> /\ has("mutation", k)
            /\ \A k \in DOMAIN wr.actions :
                  wr.actions[k].actionKey = <<k>> /\ has("action", k)

\* The wrapper of the module "a", not namespaced, has been read and has
\* proxies of all three kinds.
C14_PlainModuleRead ==
    /\ last.op = "modules"
    /\ last.key = <<"a">>
    /\ ~optionsAt(tstore.store.options, <<"a">>).namespaced
    /\ DOMAIN last.result.getters # {}
    /\ DOMAIN last.result.mutations # {}
    /\ DOMAIN last.result.actions # {}

\* C15: all wrappers of a tree hold one engine, the one made when the root
\* wrapper was constructed, and no step gives a wrapper another engine.
C15_OneEngineInTheTree ==
    /\ [](\A wr \in wrappersOf(tstore) : wr.store = tstore.store)
    /\ [](Cardinality({wr.store : wr \in wrappersOf(tstore)}) = 1)
    /\ [][\A path \in modulePaths(tstore) :
             moduleAt(tstore', path).store = moduleAt(tstore, path).store]_vars

\* A wrapper three modules below the root has been read, of a module whose
\* configuration is not the root's, and it holds the root's engine.
C15_DeepWrapperRead ==
    /\ last.op = "modules"
    /\ Len(last.key) = 3
    /\ last.result.store = tstore.store
    /\ optionsAt(tstore.store.options, last.key) # tstore.store.options

-----------------------------------------------------------------------------
(* The state view, failing calls and the wrapper's methods, under SpecP.   *)

\* C16: wrapState(namespace, engine) is the root of the engine's state tree
\* for the empty namespace and otherwise the sub-tree reached by the
\* segments of the namespace in order; it is that sub-tree itself, so a read
\* of wrapper.state gives the value the engine's state has at that moment,
\* also after mutations changed it.
C16_StateViewIsTheEnginesSubTree ==
    /\ last.op = "wrapState" =>
          LET st == stateOf(last.payload)
              p == SelectSeq(last.ns, LAMBDA c : c # "/")
              isTree == \E q \in DOMAIN st : Len(q) > Len(p) /\ SubSeq(q, 1, Len(p)) = p
          IN  IF isTree THEN last.result = [tag |-> "ref", path |-> p]
              ELSE last.result.tag \in {"undefined", "TypeError"}
    /\ last.op = "state" =>
          LET p == SelectSeq(last.ns, LAMBDA c : c # "/") \o <<last.name>>
          IN  p \in DOMAIN state =>
                 /\ last.result.tag = "number"
                 /\ last.result.num = state[p]

\* The state of the module has been read through its wrapper after a
\* mutation changed the value.
C16_ReadAfterMutation ==
    /\ last.op = "state"
    /\ last.ns = <<"module">>
    /\ last.name = "value"
    /\ last.result.tag = "number"
    /\ last.result.num # initialState[<<"module", "value">>]

\* C17: a failure of the engine reaches the caller as it is and nothing is
\* tried again: when the commit of a mutation proxy or of wrapper.commit
\* throws, the call throws the same error after exactly one commit; when the
\* dispatch of an action proxy or of wrapper.dispatch is rejected, the result
\* is the promise of that one dispatch, rejected with the engine's error, and
\* the rejection brings no further engine call.
C17_FailuresArePassedOn ==
    /\ [](last.op = "mutation" /\ ~wellTyped("mutation", last.key, last.payload) =>
            /\ last.calls = <<Call("commit", StringValue(last.key), last.payload, [root |-> TRUE])>>
            /\ last.result = Thrown("TypeError"))
    /\ [](last.op = "commit" /\ ~wellTyped("mutation", last.args[1].str, last.args[2]) =>
            /\ last.calls = <<Call("commit", last.args[1], last.args[2], last.args[3])>>
            /\ last.result = Thrown("TypeError"))
    /\ [](last.op = "action" /\ ~wellTyped("action", last.key, last.payload) =>
            /\ last.calls = <<Call("dispatch", StringValue(last.key), last.payload, [root |-> TRUE])>>
            /\ last.result.tag = "promise"
            /\ pending[last.result.id].stage = "rejected"
            /\ pending[last.result.id].value = Thrown("TypeError"))
    /\ [](last.op = "dispatch" /\ ~wellTyped("action", last.args[1].str, last.args[2]) =>
            /\ last.calls = <<Call("dispatch", last.args[1], last.args[2], last.args[3])>>
            /\ last.result.tag = "promise"
            /\ last.result.resolvedWith.tag = "promise"
            /\ pending[last.result.resolvedWith.id].stage = "rejected"
            /\ pending[last.result.resolvedWith.id].value = Thrown("TypeError"))
    /\ [][last'.op = "catch" =>
            /\ last'.result = Rejected(pending[last'.dispatch].value.error)
            /\ last'.calls = << >>
            /\ last'.fired = << >>
            /\ state' = state]_vars

\* A mutation proxy has been called without the payload its handler reads,
\* and the call threw.
C17_ProxyCommitThrew ==
    /\ last.op = "mutation"
    /\ last.payload = Undefined
    /\ last.result.tag = "throw"
    /\ Len(last.calls) = 1

\* C18: commit, dispatch, subscribe, subscribeAction, watch, registerModule,
\* unregisterModule and hotUpdate of a wrapper, root or module, each make one
\* call of the engine's operation of the same name with the arguments as
\* given, and return what the engine returned (dispatch, an async method,
\* a promise resolved with it); the engine is left as that one call leaves it.
C18_MethodsHandOver ==
    [][LET a == last'.args
           leavesAs(e) == /\ last'.calls = e.calls
                    /\ last'.fired = e.fired
                    /\ state' = e.state
                    /\ subscribers' = e.subscribers
                    /\ actionSubscribers' = e.actionSubscribers
                    /\ nextId' = e.nextId
                    /\ pending' = e.pending
           returns(e) == last'.result = e.result
           one(api, type, payload, opts) == last'.calls = <<Call(api, type, payload, opts)>>
       IN  /\ last'.op = "commit" =>
                LET e == store_commit(World, a[1], a[2], a[3])
                IN  one("commit", a[1], a[2], a[3]) /\ leavesAs(e) /\ returns(e)
           /\ last'.op = "dispatch" =>
                LET e == store_dispatch(World, a[1], a[2], a[3])
                IN  /\ one("dispatch", a[1], a[2], a[3]) /\ leavesAs(e)
                    /\ last'.result = [tag |-> "promise", resolvedWith |-> e.result]
           /\ last'.op = "subscribe" =>
                LET e == store_subscribe(World, a[1])
                IN  /\ Len(last'.calls) = 1 /\ leavesAs(e) /\ returns(e)
                    /\ subscribers' = Append(subscribers, [a[1] EXCEPT !.id = nextId])
           /\ last'.op = "subscribeAction" =>
                LET e == store_subscribeAction(World, a[1])
                IN  /\ Len(last'.calls) = 1 /\ leavesAs(e) /\ returns(e)
                    /\ actionSubscribers' = Append(actionSubscribers, [a[1] EXCEPT !.id = nextId])
           /\ last'.op = "watch" =>
                LET e == store_watch(World, a[1], a[2], a[3])
                IN  one("watch", a[1], a[2], a[3]) /\ leavesAs(e) /\ returns(e)
           /\ last'.op = "registerModule" =>
                LET e == store_registerModule(World, a[1], a[2], a[3])
                IN  one("registerModule", a[1], a[2], a[3]) /\ leavesAs(e) /\ returns(e)
           /\ last'.op = "unregisterModule" =>
                LET e == store_unregisterModule(World, a[1])
                IN  one("unregisterModule", a[1], Undefined, Undefined) /\ leavesAs(e) /\ returns(e)
           /\ last'.op = "hotUpdate" =>
                LET e == store_hotUpdate(World, a[1])
                IN  one("hotUpdate", a[1], Undefined, Undefined) /\ leavesAs(e) /\ returns(e)
    ]_vars

\* The module's wrapper has committed "payload" as it is, and the root's
\* mutation of that name, not the module's, has run.
C18_ModuleWrapperCommittedRootType ==
    /\ last.op = "commit"
    /\ last.ns = <<"module">>
    /\ last.args[1] = StringValue(<<"payload">>)
    /\ last.args[3] = NoOptions
    /\ last.calls = <<Call("commit", StringValue(<<"payload">>), last.args[2], NoOptions)>>
    /\ state[<<"title">>] # initialState[<<"title">>]
    /\ state[<<"module", "value">>] = initialState[<<"module", "value">>]

\* C19: replaceState(newState) on a wrapper returns normally after exactly
\* one replaceState(newState) call on the engine.
C19_ReplaceStateReachesTheEngine ==
    last.op = "replaceState" =>
        /\ last.calls = <<Call("replaceState", last.args[1], Undefined, Undefined)>>
        /\ last.result.tag # "throw"

\* C26: registerModule, unregisterModule and hotUpdate on a wrapper change
\* the engine only: the wrapper tree, with the keys and the qualified keys
\* of its getter, mutation, action and module proxies, is after the call
\* what it was before, and so it is after every other step.
C26_ProxiesAreFixedAtConstruction ==
    [][/\ tstore' = tstore
       /\ last'.op \in {"registerModule", "unregisterModule", "hotUpdate"} =>
             /\ Len(last'.calls) = 1
             /\ last'.calls[1].api = last'.op
             /\ \A wr \in wrappersOf(tstore') :
                   /\ DOMAIN wr.modules = DOMAIN moduleAt(wrapper, IF wr.name = << >> THEN << >>
                                                                   ELSE <<wr.name[1]>>).modules
                   /\ laterPath[1] \notin DOMAIN wr.modules
    ]_vars

\* A module has been registered through the wrapper: the engine's state
\* has its sub-tree, and the wrapper has no proxy for it.
C26_RegisteredLater ==
    /\ last.op = "registerModule"
    /\ \E p \in DOMAIN state : p[1] = laterPath[1]
    /\ laterPath[1] \notin DOMAIN tstore.modules
    /\ DOMAIN tstore.modules = {"module"}

-----------------------------------------------------------------------------
(* The state object of a wrapper across replaceState, under SpecR.         *)

\* C27: wrapper.state is the object captured at construction. A replaceState
\* on the engine makes the engine's state the new object and leaves every
\* wrapper reading what it read before; the captured object does not follow
\* the engine afterwards, and a read through wrapper.state returns what the
\* captured object holds, not what the engine's new state holds.
C27_StateIsTheObjectOfConstruction ==
    [][LET tree(c, st) == IF c = << >> THEN st ELSE c[1]
           view(c, st, wr, field) == index(tree(c, st), wr.state, <<field>>)
       IN  /\ last'.op = "store.replaceState" =>
                 /\ state' = last'.args[1]
                 /\ tstore' = tstore
                 /\ \A wr \in Wrappers : \A field \in {"title", "value", "module"} :
                       view(captured', state', wr, field) = view(captured, state, wr, field)
           /\ captured # << >> => captured' = captured
           /\ last'.op = "state" =>
                 \E wr \in Wrappers :
                    /\ wr.name = last'.ns
                    /\ last'.result = view(captured', state', wr, last'.name)
    ]_vars

\* The engine's state was replaced and then changed by a mutation; a read
\* through wrapper.state returned the title of construction, which the
\* engine's state no longer has.
C27_ReadAfterReplaceState ==
    /\ captured # << >>
    /\ last.op = "state"
    /\ last.result.tag = "number"
    /\ last.result.num = HelloWorld
    /\ state[last.result.path] = 1

-----------------------------------------------------------------------------
(* Resolving the state of a namespace, under SpecW.                        *)

\* C28: a namespace whose path is not in the state tree is not resolved to
\* something else. When a segment before the last one is missing, wrapState
\* fails with a TypeError, and so does the construction of a wrapper tree
\* that holds such a namespace; when wrapState returns an object of the
\* tree, it is the object at the path of the namespace.
C28_MissingPathIsNotMasked ==
    LET segments(ns) == SelectSeq(ns, LAMBDA c : c # "/")
        exists(st, p) == \/ p \in DOMAIN st
                         \/ \E q \in DOMAIN st : Len(q) > Len(p) /\ SubSeq(q, 1, Len(p)) = p
        missing(st, ns) == \E k \in 1..(Len(segments(ns)) - 1) :
                              ~exists(st, SubSeq(segments(ns), 1, k))
    IN  /\ last.op = "wrapState" =>
              LET st == stateOf(last.payload)
              IN  /\ missing(st, last.ns) => last.result.tag = "TypeError"
                  /\ last.result.tag = "ref" =>
                        /\ last.result.path = segments(last.ns)
                        /\ exists(st, last.result.path)
                  /\ ~exists(st, segments(last.ns)) => last.result.tag \in {"TypeError", "undefined"}
        /\ (last.op = "new Store" /\ last.payload # Undefined) =>
              LET st == stateOf(VuexStore(last.payload))
              IN  (\E wr \in wrappersOf(newStore(last.payload)) : missing(st, wr.name))
                     <=> last.result = Thrown("TypeError")

\* A tree was constructed in which a namespaced module sits in a namespaced
\* module of a module that is not namespaced: the construction threw.
C28_ConstructionThrew ==
    /\ last.op = "new Store"
    /\ last.payload # Undefined
    /\ last.result = Thrown("TypeError")

-----------------------------------------------------------------------------
(* The state of a module wrapper, under SpecT.                             *)

\* C29: the state of every module wrapper, namespaced or not and at any
\* depth, is the engine's state sub-tree of that module: the object at the
\* module's path of keys in the state tree, and so neither the root state
\* nor the sub-tree of another module.
C29_StateIsTheModulesSubTree ==
    last.op = "modules" => last.result.state = [tag |-> "ref", path |-> last.key]

-----------------------------------------------------------------------------
(* Installing, under SpecI.                                                *)

\* C20: install into the runtime that the install before it went into
\* returns normally, writes one warning to the console and changes nothing
\* else: no init hook is added to any runtime and the runtime remembered as
\* installed stays the same.
C20_SecondInstallOnlyWarns ==
    [][(last'.op = "install" /\ host.installedVue = last'.payload) =>
          /\ host'.console = Append(host.console, AlreadyInstalled)
          /\ host'.hooks = host.hooks
          /\ host'.installedVue = host.installedVue
          /\ last'.result = Undefined
    ]_vars

\* A runtime has been installed into twice in a row: it has one hook and
\* the console one warning.
C20_InstalledTwiceInARow ==
    /\ last.op = "install"
    /\ host.installedVue = last.payload
    /\ Len(host.console) = 1
    /\ Len(host.hooks[last.name]) = 1
    /\ \A id \in DOMAIN host.hooks : id # last.name => host.hooks[id] = << >>

\* C21: every component created in an installed runtime has as $tstore the
\* value its options declare under tstore, or what the declared function
\* returns; without a declaration it has its parent's $tstore when the
\* parent has one. So its $tstore is that of the nearest component, itself
\* or an ancestor, that declares one, and is unset when none does.
C21_ComponentsBindTheNearestStore ==
    \A i \in DOMAIN host.components :
        LET c == host.components[i]
            value(d) == IF d.tag = "function" THEN d.returns ELSE d
            RECURSIVE nearest(_)
            nearest(j) ==
                IF j = 0 THEN Unset
                ELSE IF host.components[j].options.tstore # Undefined
                THEN value(host.components[j].options.tstore)
                ELSE nearest(host.components[j].options.parent)
        IN  /\ c.options.tstore # Undefined =>
                 /\ c.tstore = value(c.options.tstore)
                 /\ c.options.tstore.tag = "function" => c.factoryCalls >= 1
            /\ (c.options.tstore = Undefined /\ c.options.parent # 0) =>
                 c.tstore = host.components[c.options.parent].tstore
            /\ (c.options.tstore = Undefined /\ c.options.parent = 0) => c.tstore = Unset
            /\ c.tstore = nearest(i)

\* A component without a declaration, whose parent has none either, has
\* the wrapper that the function declared by its grandparent returned.
C21_GrandchildInherited ==
    \E i \in DOMAIN host.components :
        LET c == host.components[i]
        IN  /\ c.options.tstore = Undefined
            /\ c.options.parent # 0
            /\ LET p == host.components[c.options.parent]
               IN  /\ p.options.tstore = Undefined
                   /\ p.options.parent # 0
                   /\ host.components[p.options.parent].options.tstore = Factory(TStoreValue(2))
            /\ c.tstore = TStoreValue(2)

\* C22: whatever the sequence of install calls over the runtimes, each
\* runtime holds the init hook at most once, and an install into a runtime
\* that holds it already only warns.
C22_HookRegisteredAtMostOnce ==
    /\ \A id \in DOMAIN host.hooks : Len(host.hooks[id]) <= 1

-----------------------------------------------------------------------------
(* Order and independence of the handlers of an action, under SpecC.       *)

\* C23: in a dispatch the before handlers standing for its key fire in the
\* order of their registration, before the action body changes the state;
\* in the callback of its settled promise the after handlers standing for
\* its key fire in the order of their registration, on the state the body
\* left.
C23_HandlersFireInRegistrationOrder ==
    [][LET standing(hook) ==
               SelectSeq(handles, LAMBDA r : r.hook = hook /\ ~r.called /\ r.key = last'.key)
           ids(regs) == [i \in 1..Len(regs) |-> regs[i].id]
           handlers(regs) == [i \in 1..Len(regs) |-> regs[i].handler]
       IN  /\ last'.op = "action" =>
                /\ ids(last'.fired) = ids(standing("before"))
                /\ handlers(last'.fired) = handlers(standing("before"))
                /\ \A i \in DOMAIN last'.fired : last'.fired[i].seen = state
           /\ last'.op = "then" =>
                /\ ids(last'.fired) = ids(standing("after"))
                /\ handlers(last'.fired) = handlers(standing("after"))
                /\ pending[last'.dispatch].stage = "settled"
                /\ \A i \in DOMAIN last'.fired : last'.fired[i].seen = state'
    ]_vars

\* Two different handlers registered with before have fired in one
\* dispatch, the one registered first first, and the body has changed the
\* state they saw.
C23_TwoBeforeHandlersFired ==
    /\ last.op = "action"
    /\ Len(last.fired) = 2
    /\ last.fired[1].handler # last.fired[2].handler
    /\ last.fired[1].id < last.fired[2].id
    /\ last.fired[1].seen # state

\* C24: with several dispatches of one key in flight, each dispatch fires
\* every standing before handler once with its own payload, and the callback
\* of each settled dispatch fires every standing after handler once with
\* that dispatch's payload, whatever the stage of the other dispatches,
\* which it leaves as they are.
C24_DispatchesAreIndependent ==
    [][LET fires(hook) ==
               \A reg \in DOMAIN handles :
                  LET r == handles[reg]
                      mine == SelectSeq(last'.fired, LAMBDA f : f.id = r.id)
                  IN  (r.hook = hook /\ ~r.called /\ r.key = last'.key) => Len(mine) = 1
       IN  /\ last'.op = "action" =>
                /\ fires("before")
                /\ last'.result.tag = "promise"
                /\ pending[last'.result.id] = Idle
                /\ \A i \in DOMAIN last'.fired :
                      /\ last'.fired[i].arg = last'.payload
                      /\ last'.fired[i].dispatch = last'.result.id
                /\ \A d \in DOMAIN pending : d # last'.result.id => pending'[d] = pending[d]
           /\ last'.op = "then" =>
                /\ fires("after")
                /\ \A i \in DOMAIN last'.fired :
                      /\ last'.fired[i].arg = pending[last'.dispatch].action.payload
                      /\ last'.fired[i].dispatch = last'.dispatch
                /\ \A d \in DOMAIN pending : d # last'.dispatch => pending'[d] = pending[d]
    ]_vars

\* The after handler has fired for the dispatch made second, with that
\* dispatch's payload, while the dispatch of the same key made first, with
\* another payload, has not settled.
C24_SecondSettledFirst ==
    /\ last.op = "then"
    /\ last.dispatch = 2
    /\ Len(last.fired) = 1
    /\ last.fired[1].hook = "after"
    /\ last.fired[1].arg = last.payload
    /\ pending[1].stage = "running"
    /\ pending[1].action.type = last.key
    /\ pending[1].action.payload # last.payload

\* C25: when the result of an action proxy call is delivered to the code
\* awaiting it, every after handler standing for the key has been invoked
\* in that same callback, on the state the completed action body left, and
\* the result is the value the action settled to.
C25_AfterHandlersRunBeforeTheResult ==
    [][last'.op = "then" =>
          /\ pending[last'.dispatch].stage = "settled"
          /\ last'.result = pending[last'.dispatch].value
          /\ pending'[last'.dispatch] = Idle
          /\ state' = state
          /\ \A reg \in DOMAIN handles :
                LET r == handles[reg]
                IN  (r.hook = "after" /\ ~r.called /\ r.key = last'.key) =>
                       \E i \in DOMAIN last'.fired :
                          /\ last'.fired[i].id = r.id
                          /\ last'.fired[i].handler = r.handler
                          /\ last'.fired[i].seen = state'
    ]_vars

\* A result has been delivered, two after handlers have fired in its
\* callback, and the state they saw is the one the body made.
C25_ResultAfterTwoHandlers ==
    /\ last.op = "then"
    /\ last.result \in Results
    /\ Len(last.fired) = 2
    /\ \A i \in DOMAIN last.fired :
          /\ last.fired[i].hook = "after"
          /\ last.fired[i].seen = state
          /\ last.fired[i].seen # initialState

-----------------------------------------------------------------------------
(* Registrations of one handler, under SpecL.                              *)

\* C30: every listen, before and after makes a registration of its own, also
\* when the handler is one that is registered already, on the same proxy or
\* on another. An event fires the handler once for each registration that
\* stands for its key, k times for k registrations, and calling a handle
\* takes out the registration it was returned for and leaves the others.
C30_RegistrationsAreIndependent ==
    [][LET hookOf(op) == CASE op = "store.commit" -> "listen"
                           [] op = "store.dispatch" -> "before"
                           [] op = "then" -> "after"
           standing(hook, key) == {reg \in DOMAIN handles :
                                      /\ ~handles[reg].called
                                      /\ handles[reg].hook = hook
                                      /\ handles[reg].key = key}
           firings(id) == {i \in DOMAIN last'.fired : last'.fired[i].id = id}
           ids(subs) == {subs[i].id : i \in DOMAIN subs}
       IN  /\ last'.op \in {"store.commit", "store.dispatch", "then"} =>
                 /\ \A reg \in standing(hookOf(last'.op), last'.key) :
                       Cardinality(firings(handles[reg].id)) = 1
                 /\ Len(last'.fired) = Cardinality(standing(hookOf(last'.op), last'.key))
           /\ last'.op \in {"listen", "before", "after"} =>
                 /\ Len(handles') = Len(handles) + 1
                 /\ \A reg \in DOMAIN handles : handles'[last'.reg].id # handles[reg].id
                 /\ ids(subscribers') \cup ids(actionSubscribers')
                      = ids(subscribers) \cup ids(actionSubscribers) \cup {handles'[last'.reg].id}
           /\ last'.op = "unsubscribe" =>
                 /\ ids(subscribers') \cup ids(actionSubscribers')
                      = (ids(subscribers) \cup ids(actionSubscribers)) \ {handles[last'.reg].id}
                 /\ \A reg \in DOMAIN handles :
                       (reg # last'.reg /\ ~handles[reg].called) =>
                          handles[reg].id \in ids(subscribers') \cup ids(actionSubscribers')
    ]_vars

\* One handler was registered twice with listen on one proxy and the first
\* handle was called: a commit of the key fired the handler once, for the
\* second registration.
C30_OneOfTwoCancelled ==
    /\ Len(handles) = 2
    /\ handles[1].hook = "listen" /\ handles[2].hook = "listen"
    /\ handles[1].key = handles[2].key
    /\ handles[1].handler = handles[2].handler
    /\ handles[1].called /\ ~handles[2].called
    /\ last.op = "store.commit"
    /\ last.key = handles[2].key
    /\ Len(last.fired) = 1
    /\ last.fired[1].id = handles[2].id

====
